---- MODULE Spec2Model ----
(***************************************************************************)
(* Model of the konduit-serving example sessions: the notebooks            *)
(* 02_tensorflow-basic-bert, 03_deeplearning4j-multilayernetwork,          *)
(* 05_pytorch-example (two notebooks: PythonStep and TransformProcessStep) *)
(* and the YAML / command line walkthrough (unnamed/part_000).             *)
(*                                                                         *)
(* A session builds configuration records, serializes them (as_dict),      *)
(* starts the external server process, waits for it, sends a request and   *)
(* stops the process.  The external server is the environment: how long it *)
(* takes to load, and whether it loads at all, is its choice.              *)
(***************************************************************************)
EXTENDS Integers, Sequences, FiniteSets, TLC

VARIABLES
  session,      \* which documented session runs
  mode,         \* "script": the cells in their order; "api": calls in any order
  inUse,        \* the ports other processes or sessions of the host hold
  pc,           \* index of the next statement of the session's script
  port,         \* the notebook variable `port` (0: not drawn yet)
  env,          \* the notebook's variables holding configuration records
  entered,      \* the keyword arguments given to each constructor / builder call
  dict_out,     \* the value displayed by server.config.as_dict()
  config_file,  \* the serialized configuration handed to the external process
  client,       \* the Client record (or NoClient)
  proc,         \* the subprocess handle of the Server: "none" | "running" | "stopped"
  ext,          \* the external server: "down" | "loading" | "ready" | "failed"
  loadTime,     \* seconds the external server needs to load (environment)
  loadOk,       \* whether loading ends ready (TRUE) or in a load error (FALSE)
  clock,        \* seconds elapsed since the process was spawned
  polls,        \* health checks made by the running start()
  http,         \* the HTTP prediction requests sent, oldest first
  result,       \* what the last predict returned or raised
  err,          \* the exception that ended the session ("none": none)
  stdout,       \* the lines printed by start()
  starting,     \* TRUE while a start() call is in its readiness loop
  ops,          \* the operations performed, oldest first
  calls         \* number of start / predict / stop calls made in "api" mode

vars == <<session, mode, inUse, pc, port, env, entered, dict_out, config_file, client,
          proc, ext, loadTime, loadOk, clock, polls, http, result, err, stdout,
          starting, ops, calls>>

----------------------------------------------------------------------------
(* Bounds of the model *)

\* number of consecutive values of np.random.randint(1000, 65535) explored
NumPorts == 2
\* longest load time of the external server explored, in seconds
MaxLoadTime == 90
\* health checks start() makes before it gives up
MaxPolls == 3
\* calls made by a caller that uses the API in any order
MaxCalls == 4

(* Program constants *)

PortLow == 1000
PortHigh == 65535
YamlPort == 1337
SleepBert == 60
SleepDl4j == 30
\* seconds between two health checks of start()
PollInterval == 5

RandPorts == (PortLow .. (PortLow + NumPorts - 1)) \cup {PortHigh - 1}
LoadTimes == {PollInterval, 2 * PollInterval, SleepDl4j + PollInterval, MaxLoadTime}
\* what other processes may hold: nothing, or one of the ports a session can get
PortsHeld == {{}} \cup { {p} : p \in RandPorts \cup {YamlPort} }

----------------------------------------------------------------------------
(* Field names.  A field name is the sequence of its words: the Python     *)
(* keyword http_port is <<"http","port">>, and the serialized key is its   *)
(* camelCase form "httpPort".                                              *)

Capitalize ==
  ("port" :> "Port") @@ ("data" :> "Data") @@ ("type" :> "Type") @@
  ("types" :> "Types") @@ ("format" :> "Format") @@ ("names" :> "Names") @@
  ("config" :> "Config") @@ ("loading" :> "Loading") @@ ("path" :> "Path") @@
  ("timings" :> "Timings") @@ ("steps" :> "Steps") @@ ("schemas" :> "Schemas") @@
  ("column" :> "Column") @@ ("processes" :> "Processes") @@
  ("inference" :> "Inference") @@ ("process" :> "Process") @@
  ("schema" :> "Schema") @@ ("configs" :> "Configs")

RECURSIVE CamelCase(_)
CamelCase(words) ==
  IF Len(words) = 1 THEN words[1]
  ELSE CamelCase(SubSeq(words, 1, Len(words) - 1)) \o Capitalize[words[Len(words)]]

\* fields whose value is itself a configuration record
NestedFields ==
  { <<"tensor","data","types","config">>, <<"model","config","type">>,
    <<"model","config">>, <<"parallel","inference","config">>,
    <<"serving","config">> }

\* fields whose value is a list of configuration records
ListFields == { <<"pipeline","steps">>, <<"steps">> }

----------------------------------------------------------------------------
(* Configuration records: [type |-> the class, kw |-> the fields it holds] *)

Record(type, kw) == [type |-> type, kw |-> kw]

TensorDataTypesConfig(input_data_types) ==
  Record("TensorDataTypesConfig", (<<"input","data","types">> :> input_data_types))

ModelConfigType(model_type, model_loading_path) ==
  Record("ModelConfigType",
         (<<"model","type">> :> model_type) @@
         (<<"model","loading","path">> :> model_loading_path))

\* the same, every model configuration serialized as the base class
ModelConfigOfBaseClass(type, tdtc, mct) ==
  Record("ModelConfig", (<<"tensor","data","types","config">> :> tdtc) @@
                        (<<"model","config","type">> :> mct))

\* TensorFlowConfig(...) and ModelConfig(...): the class is `type`
ModelConfigOf(type, tdtc, mct) ==
  Record(type, (<<"tensor","data","types","config">> :> tdtc) @@
               (<<"model","config","type">> :> mct))

ParallelInferenceConfig(workers) ==
  Record("ParallelInferenceConfig", (<<"workers">> :> workers))

ModelStep(model_config, pic, input_names, output_names) ==
  Record("ModelStep",
         (<<"input","names">> :> input_names) @@
         (<<"output","names">> :> output_names) @@
         (<<"model","config">> :> model_config) @@
         (<<"parallel","inference","config">> :> pic))

\* ServingConfig(**kwargs): log_timings is serialized as True though not entered
ServingConfig(kwargs) ==
  Record("ServingConfig", kwargs @@ (<<"log","timings">> :> TRUE))

InferenceConfiguration(serving_config, pipeline_steps) ==
  Record("InferenceConfiguration",
         (<<"pipeline","steps">> :> pipeline_steps) @@
         (<<"serving","config">> :> serving_config))

\* Server(steps=..., serving_config=...) builds the configuration itself
ServerFromStepsAsPipeline(steps, serving_config) ==
  Record("InferenceConfiguration",
         (<<"pipeline","steps">> :> steps) @@ (<<"serving","config">> :> serving_config))

ServerFromSteps(steps, serving_config) ==
  Record("InferenceConfiguration",
         (<<"steps">> :> steps) @@ (<<"serving","config">> :> serving_config))

----------------------------------------------------------------------------
(* as_dict(): every record becomes a dictionary with its class under       *)
(* '@type' and each field under the camelCase form of its name; nested     *)
(* records and lists of records are converted the same way.                *)

RECURSIVE AsDict(_)
AsDictDroppingWorkers(rec) ==
  LET kw == rec.kw
      keep == { w \in DOMAIN kw : w # <<"workers">> }
      val(w) == IF w \in NestedFields THEN AsDict(kw[w])
                ELSE IF w \in ListFields
                     THEN [i \in 1..Len(kw[w]) |-> AsDict(kw[w][i])]
                     ELSE kw[w]
  IN  ("@type" :> rec.type) @@
      [k \in { CamelCase(w) : w \in keep } |->
         val(CHOOSE w \in keep : CamelCase(w) = k)]

\* the same conversion, lists written last element first
AsDictReversingLists(rec) ==
  LET kw == rec.kw
      rev(q) == [i \in 1..Len(q) |-> q[Len(q) + 1 - i]]
      val(w) == IF w \in NestedFields THEN AsDict(kw[w])
                ELSE IF w \in ListFields
                     THEN rev([i \in 1..Len(kw[w]) |-> AsDict(kw[w][i])])
                     ELSE IF w \in {<<"input","names">>, <<"output","names">>}
                          THEN rev(kw[w])
                          ELSE kw[w]
  IN  ("@type" :> rec.type) @@
      [k \in { CamelCase(w) : w \in DOMAIN kw } |->
         val(CHOOSE w \in DOMAIN kw : CamelCase(w) = k)]

AsDict(rec) ==
  LET kw == rec.kw
      val(w) == IF w \in NestedFields THEN AsDict(kw[w])
                ELSE IF w \in ListFields
                     THEN [i \in 1..Len(kw[w]) |-> AsDict(kw[w][i])]
                     ELSE kw[w]
  IN  ("@type" :> rec.type) @@
      [k \in { CamelCase(w) : w \in DOMAIN kw } |->
         val(CHOOSE w \in DOMAIN kw : CamelCase(w) = k)]

----------------------------------------------------------------------------
(* Builders that change the record they are called on.                     *)

\* the name a step's input and output take when none is given
DefaultName == "default"

EmptyMap == [n \in {} |-> <<>>]

\* TransformProcessStep(): no names, schemas, columns or processes yet
NewTransformProcessStep ==
  Record("TransformProcessStep",
         (<<"input","schemas">> :> EmptyMap) @@
         (<<"output","schemas">> :> EmptyMap) @@
         (<<"input","names">> :> <<>>) @@
         (<<"output","names">> :> <<>>) @@
         (<<"input","column","names">> :> EmptyMap) @@
         (<<"output","column","names">> :> EmptyMap) @@
         (<<"transform","processes">> :> EmptyMap))

AddName(names, n) ==
  IF \E i \in 1..Len(names) : names[i] = n THEN names ELSE Append(names, n)

Put(map, k, v) == (k :> v) @@ map

\* step.set_input(schema, column_names, types): stored under the step's input name
SetInputOf(step, column_names, types) ==
  [step EXCEPT
     !.kw[<<"input","names">>] = AddName(@, DefaultName),
     !.kw[<<"input","schemas">>] = Put(@, DefaultName, types),
     !.kw[<<"input","column","names">>] = Put(@, DefaultName, column_names)]

\* step.set_output(...), the output named after its first column
SetOutputOfNamedByColumn(step, column_names, types) ==
  [step EXCEPT
     !.kw[<<"output","names">>] = AddName(@, column_names[1]),
     !.kw[<<"output","schemas">>] = Put(@, column_names[1], types),
     !.kw[<<"output","column","names">>] = Put(@, column_names[1], column_names)]

\* step.set_output(schema, column_names, types)
SetOutputOf(step, column_names, types) ==
  [step EXCEPT
     !.kw[<<"output","names">>] = AddName(@, DefaultName),
     !.kw[<<"output","schemas">>] = Put(@, DefaultName, types),
     !.kw[<<"output","column","names">>] = Put(@, DefaultName, column_names)]

\* step.transform_process(json)
SetTransformProcessOf(step, tp_json) ==
  [step EXCEPT !.kw[<<"transform","processes">>] = Put(@, DefaultName, tp_json)]

\* list(d.values()), taken for the keys
DictValues(d) == [i \in 1..Len(d) |-> d[i][2]]

\* Python dictionaries keep insertion order: a dict is a sequence of pairs
DictKeys(d) == [i \in 1..Len(d) |-> d[i][1]]

\* PythonStep().step(...), the step's inputs named after python_inputs
PythonStepNamedByInputs(input_name, python_config) ==
  Record("PythonStep",
         (<<"input","names">> :> DictKeys(python_config.kw[<<"python","inputs">>])) @@
         (<<"output","names">> :> <<DefaultName>>) @@
         (<<"input","column","names">> :>
            Put(EmptyMap, input_name, DictKeys(python_config.kw[<<"python","inputs">>]))) @@
         (<<"output","column","names">> :>
            Put(EmptyMap, DefaultName, DictKeys(python_config.kw[<<"python","outputs">>]))) @@
         (<<"python","configs">> :> Put(EmptyMap, input_name, python_config)))

\* PythonStep().step(input_name, python_config): the step is named input_name;
\* the names of python_inputs and python_outputs are its input and output
\* column names, and what is not named takes the default name
PythonStepOf(input_name, python_config) ==
  Record("PythonStep",
         (<<"input","names">> :> <<input_name>>) @@
         (<<"output","names">> :> <<DefaultName>>) @@
         (<<"input","column","names">> :>
            Put(EmptyMap, input_name, DictKeys(python_config.kw[<<"python","inputs">>]))) @@
         (<<"output","column","names">> :>
            Put(EmptyMap, DefaultName, DictKeys(python_config.kw[<<"python","outputs">>]))) @@
         (<<"python","configs">> :> Put(EmptyMap, input_name, python_config)))

\* pydatavec: Schema(), schema.add_string_column(name)
NewSchema == [columns |-> <<>>]

AddStringColumn(schema, name) ==
  [schema EXCEPT !.columns = Append(@, [class |-> "StringMetaData", name |-> name])]

\* pydatavec: TransformProcess(schema), tp.append_string(column, text)
NewTransformProcess(schema) == [actionList |-> <<>>, initialSchema |-> schema]

AppendString(tp, column, text) ==
  [tp EXCEPT !.actionList =
     Append(@, [class |-> "AppendStringColumnTransform",
                columnName |-> column, toAppend |-> text])]

\* json.loads(tp.to_java().toJson())
TpToJson(tp) ==
  [actionList |-> [i \in 1..Len(tp.actionList) |-> [transform |-> tp.actionList[i]]],
   initialSchema |-> [class |-> "Schema", columns |-> tp.initialSchema.columns]]

----------------------------------------------------------------------------
(* The documented sessions *)

NotebookSessions == {"nb02", "nb03", "nb05py", "nb05tp"}

CliSessions ==
  {"cli_konduit", "cli_simple", "cli_pytorch", "cli_dl4j", "cli_mnist",
   "cli_bert", "cli_keras"}

Sessions == NotebookSessions \cup CliSessions

\* The statements of each session, in the order of its cells
ScriptStopFirst(s) ==
  IF s \in {"nb02", "nb03"}
  THEN <<"port", "model_config", "model_step", "serving", "server_ic", "as_dict",
         "client", "data", "start", "sleep", "stop", "predict", "print">>
  ELSE IF s = "nb05py"
  THEN <<"python_config", "python_step", "port", "serving", "server_steps",
         "start", "client", "data", "stop", "predict", "print">>
  ELSE IF s = "nb05tp"
  THEN <<"schema_new", "schema_add", "tp_new", "tp_append", "tp_json",
         "transform_step", "port", "serving", "server_steps", "as_dict", "start",
         "client", "data", "stop", "predict", "print">>
  ELSE <<"serve", "stop_server", "predict_numpy">>

Script(s) ==
  CASE s = "nb02" ->
         <<"model_config", "model_step", "port", "serving", "server_ic", "as_dict",
           "client", "data", "start", "sleep", "predict", "print", "stop">>
    [] s = "nb03" ->
         <<"port", "model_config", "model_step", "serving", "server_ic", "as_dict",
           "client", "data", "start", "sleep", "predict", "print", "stop">>
    [] s = "nb05py" ->
         <<"python_config", "python_step", "port", "serving", "server_steps",
           "start", "data", "client", "predict", "print", "stop">>
    [] s = "nb05tp" ->
         <<"schema_new", "schema_add", "tp_new", "tp_append", "tp_json",
           "transform_step", "port", "serving", "server_steps", "as_dict", "start", "client",
           "data", "predict", "print", "stop">>
    [] OTHER -> <<"serve", "predict_numpy", "stop_server">>

\* the sessions whose step is built without input and output names
NoNamesGiven(s) == s \in {"nb05tp", "cli_konduit", "cli_simple", "cli_pytorch"}

\* The cell (its execution count) of each statement of a session; on the
\* command line every command is entered on its own
CellsOneEach(s) == [i \in 1..Len(Script(s)) |-> i]

Cells(s) ==
  CASE s = "nb02" -> <<3, 4, 5, 5, 6, 7, 8, 9, 10, 10, 10, 10, 10>>
    [] s = "nb03" -> <<2, 2, 2, 3, 3, 4, 5, 6, 7, 7, 7, 7, 7>>
    [] s = "nb05py" -> <<6, 7, 8, 8, 8, 9, 9, 10, 10, 10, 11>>
    [] s = "nb05tp" -> <<3, 3, 3, 3, 4, 5, 6, 6, 6, 7, 8, 8, 9, 9, 9, 9>>
    [] OTHER -> <<1, 2, 3>>

LifecycleOps ==
  {"start", "sleep", "predict", "print", "stop", "serve", "predict_numpy",
   "stop_server"}

IsBuildOp(op) == op \notin LifecycleOps

\* the statements that build records, for a caller who then calls in any order
BuildScript(s) == SelectSeq(Script(s), IsBuildOp)

\* server.start() of notebooks 02 and 03 returns at once and prints nothing
\* (the cell waits with time.sleep); the later SDK prints "Starting server"
\* and one dot per health check
StartPolls(s) == s \notin {"nb02", "nb03"}

SleepSeconds(s) == IF s = "nb02" THEN SleepBert ELSE SleepDl4j

InputDataTypes(s) ==
  CASE s \in {"nb02", "cli_bert"} ->
         << <<"IteratorGetNext:0", "INT32">>, <<"IteratorGetNext:1", "INT32">>,
            <<"IteratorGetNext:4", "INT32">> >>
    [] s \in {"nb03", "cli_dl4j"} -> << <<"image_array", "FLOAT">> >>
    [] s = "cli_mnist" -> << <<"input_layer", "FLOAT">> >>
    [] OTHER -> <<>>

OutputNames(s) ==
  CASE s \in {"nb02", "cli_bert"} -> <<"loss/Softmax">>
    [] s \in {"nb03", "cli_dl4j"} -> <<"output">>
    [] s = "cli_mnist" -> <<"output_layer/Softmax">>
    [] s = "cli_keras" -> <<"lstm_1">>
    [] OTHER -> <<DefaultName>>

ModelType(s) ==
  CASE s \in {"nb02", "cli_bert", "cli_mnist"} -> "TENSORFLOW"
    [] s \in {"nb03", "cli_dl4j"} -> "MULTI_LAYER_NETWORK"
    [] s = "cli_keras" -> "KERAS"
    [] OTHER -> "PYTHON"

ModelPath(s) ==
  CASE s \in {"nb02", "cli_bert"} -> "bert_mrpc_frozen.pb"
    [] s \in {"nb03", "cli_dl4j"} -> "../data/multilayernetwork/SimpleCNN.zip"
    [] s = "cli_mnist" -> "../data/mnist/mnist_2.0.0.pb"
    [] s = "cli_keras" -> "../data/keras/embedding_lstm_tensorflow_2.h5"
    [] OTHER -> "none"

\* os.path.abspath(path): the path below the working directory
AbsPath(path) == "/notebooks/" \o path

\* the keys of the dictionary given to client.predict
DataInputKeys(s) ==
  CASE s = "nb02" -> <<"IteratorGetNext:0", "IteratorGetNext:1", "IteratorGetNext:4">>
    [] s = "nb03" -> <<"image_array">>
    [] s = "nb05py" -> <<"input1">>
    [] s = "nb05tp" -> <<"first">>
    [] OTHER -> <<>>

\* the keyword arguments of ServingConfig(...)
ServingKwargs(s, p) ==
  CASE s \in {"nb02", "nb03"} ->
         (<<"http","port">> :> p) @@ (<<"input","data","type">> :> "NUMPY") @@
         (<<"output","data","type">> :> "NUMPY")
    [] s = "nb05tp" ->
         (<<"http","port">> :> p) @@ (<<"input","data","format">> :> "JSON") @@
         (<<"output","data","format">> :> "JSON")
    [] s = "nb05py" -> (<<"http","port">> :> p)
    [] OTHER ->
         (<<"http","port">> :> p) @@ (<<"input","data","format">> :> "NUMPY") @@
         (<<"output","data","format">> :> "NUMPY")

----------------------------------------------------------------------------
(* str(port) and its reading back from the url *)

RECURSIVE Str(_)
Str(n) == IF n < 10 THEN <<n>> ELSE Append(Str(n \div 10), n % 10)

RECURSIVE ParseInt(_)
ParseInt(digits) ==
  IF Len(digits) = 0 THEN 0
  ELSE 10 * ParseInt(SubSeq(digits, 1, Len(digits) - 1)) + digits[Len(digits)]

\* 'http://localhost:' + str(port)
UrlOfYamlPort(p) == [prefix |-> "http://localhost:", digits |-> Str(YamlPort)]

UrlOf(p) == [prefix |-> "http://localhost:", digits |-> Str(p)]

----------------------------------------------------------------------------
(* The YAML configurations of the command line walkthrough *)

\* whether the walkthrough prints the file's serving and client sections
YamlShowsSections(s) == s \in {"cli_konduit", "cli_simple", "cli_pytorch", "cli_dl4j"}

YamlServingPort(s) == YamlPort

YamlClientPort(s) == YamlPort

\* input_names of the step; a PYTHON step cannot set them and takes the default
YamlInputNames(s) ==
  CASE s = "cli_dl4j" -> <<"image_array">>
    [] s = "cli_mnist" -> <<"input_layer">>
    [] s = "cli_bert" ->
         <<"IteratorGetNext:0", "IteratorGetNext:1", "IteratorGetNext:4">>
    [] s = "cli_keras" -> <<"input">>
    [] OTHER -> <<DefaultName>>

YamlPythonInputs(s) ==
  IF s = "cli_pytorch" THEN << <<"image", "NDARRAY">> >>
  ELSE << <<"first", "NDARRAY">> >>

YamlPythonOutputs(s) ==
  IF s = "cli_pytorch" THEN << <<"img_out_y", "NDARRAY">> >>
  ELSE << <<"second", "NDARRAY">> >>

PythonConfig(python_inputs, python_outputs) ==
  Record("PythonConfig",
         (<<"python","inputs">> :> python_inputs) @@
         (<<"python","outputs">> :> python_outputs))

\* A comma separated option is the sequence of its items and commas; an
\* option that is not given is the empty sequence.

\* --input_names of predict-numpy
CliInputNamesOption(s) ==
  CASE s \in {"cli_dl4j", "cli_mnist"} -> <<"input_layer">>
    [] s = "cli_bert" ->
         <<"IteratorGetNext:0", ",", "IteratorGetNext:1", ",", "IteratorGetNext:4">>
    [] s = "cli_keras" -> <<"input">>
    [] OTHER -> <<>>

\* --numpy_data of predict-numpy
CliNumpyDataOption(s) ==
  CASE s = "cli_konduit" -> <<"../data/bert/input-0.npy">>
    [] s = "cli_simple" -> <<"../data/simple/input_arr.npy">>
    [] s = "cli_pytorch" -> <<"../data/pytorch/im.npy">>
    [] s = "cli_dl4j" -> <<"../data/multilayernetwork/image_array.npy">>
    [] s = "cli_mnist" -> <<"../data/mnist/input_layer.npy">>
    [] s = "cli_bert" ->
         <<"../data/bert/input-0.npy", ",", "../data/bert/input-1.npy", ",",
           "../data/bert/input-4.npy">>
    [] OTHER -> <<"../data/keras/input.npy">>

IsItem(t) == t # ","

\* the option taken as one item, not split
SplitCommaKeepingFirst(option) == <<option[1]>>

\* option.split(",")
SplitComma(option) == SelectSeq(option, IsItem)

\* the input names of predict-numpy: `default` when --input_names is omitted
CliInputNames(s) ==
  IF CliInputNamesOption(s) = <<>> THEN <<DefaultName>>
  ELSE SplitComma(CliInputNamesOption(s))

\* the array files of predict-numpy
CliNumpyData(s) == SplitComma(CliNumpyDataOption(s))

\* the dictionary sent: the i-th value under the i-th name
ZipInputs(names, values) ==
  LET m == IF Len(names) < Len(values) THEN Len(names) ELSE Len(values)
  IN  [n \in { names[i] : i \in 1..m } |->
         values[CHOOSE i \in 1..m : names[i] = n]]

\* the step a YAML file declares
YamlStep(s) ==
  IF ModelType(s) = "PYTHON"
  THEN PythonStepOf(DefaultName, PythonConfig(YamlPythonInputs(s), YamlPythonOutputs(s)))
  ELSE ModelStep(
         IF s = "cli_keras"
         THEN Record("ModelConfig",
                     (<<"model","config","type">> :>
                        ModelConfigType(ModelType(s), ModelPath(s))))
         ELSE ModelConfigOf(IF ModelType(s) = "TENSORFLOW"
                            THEN "TensorFlowConfig" ELSE "ModelConfig",
                            TensorDataTypesConfig(InputDataTypes(s)),
                            ModelConfigType(ModelType(s), ModelPath(s))),
         ParallelInferenceConfig(1), YamlInputNames(s), OutputNames(s))

\* konduit.load: the configuration a YAML file stands for
YamlConfig(s) ==
  ServerFromSteps(<<YamlStep(s)>>, ServingConfig(ServingKwargs(s, YamlServingPort(s))))

----------------------------------------------------------------------------
(* Reading a configuration and its serialized document *)

StepsOf(cfg) ==
  IF <<"steps">> \in DOMAIN cfg.kw THEN cfg.kw[<<"steps">>]
  ELSE cfg.kw[<<"pipeline","steps">>]

\* names of the first and of the final node of the pipeline
ServerInputNames(cfg) == StepsOf(cfg)[1].kw[<<"input","names">>]

ServerOutputNames(cfg) == StepsOf(cfg)[Len(StepsOf(cfg))].kw[<<"output","names">>]

DefaultFormat == "NUMPY"

\* the accepted input and output data types, as the notebooks list them
AcceptedInputFormats == {"JSON", "ARROW", "IMAGE", "ND4J", "NUMPY"}

AcceptedOutputFormats == {"NUMPY", "JSON", "ND4J", "ARROW"}

ServingFormat(cfg, dir) ==
  LET kw == cfg.kw[<<"serving","config">>].kw
  IN  IF <<dir, "data", "format">> \in DOMAIN kw THEN kw[<<dir, "data", "format">>]
      ELSE IF <<dir, "data", "type">> \in DOMAIN kw THEN kw[<<dir, "data", "type">>]
      ELSE DefaultFormat

StepsKey(doc) == IF "pipelineSteps" \in DOMAIN doc THEN "pipelineSteps" ELSE "steps"

DocSteps(doc) == doc[StepsKey(doc)]

\* the part of the document a constructor's record is serialized to
DocAt(doc, target) ==
  CASE target = "serving" -> doc["servingConfig"]
    [] target = "step" -> DocSteps(doc)[1]
    [] target = "tdtc" -> DocSteps(doc)[1]["modelConfig"]["tensorDataTypesConfig"]
    [] target = "mct" -> DocSteps(doc)[1]["modelConfig"]["modelConfigType"]
    [] target = "pic" -> DocSteps(doc)[1]["parallelInferenceConfig"]
    [] OTHER -> doc

NoDoc == ("@type" :> "None")

HasDoc(doc) == doc["@type"] # "None"

----------------------------------------------------------------------------
(* The client *)

NoClient ==
  [kind |-> "none", input_names |-> <<>>, output_names |-> <<>>,
   input_type |-> "none", endpoint_output_type |-> "none",
   return_output_type |-> "none", via |-> "none", url |-> UrlOf(0), port |-> 0]

\* Client(input_names, output_names, input_type, endpoint_output_type,
\*        return_output_type, url)
ClientWithUrl(input_names, output_names, p) ==
  [kind |-> "client", input_names |-> input_names, output_names |-> output_names,
   input_type |-> "NUMPY", endpoint_output_type |-> "NUMPY",
   return_output_type |-> "NUMPY", via |-> "url", url |-> UrlOf(p), port |-> 0]

\* Client(..., port): what is not given is inherited from the server's configuration
ClientWithPort(cfg, input_format, output_format, return_format, p) ==
  [kind |-> "client", input_names |-> ServerInputNames(cfg),
   output_names |-> ServerOutputNames(cfg),
   input_type |-> input_format, endpoint_output_type |-> output_format,
   return_output_type |-> return_format, via |-> "port", url |-> UrlOf(0),
   port |-> p]

\* the port the client sends its requests to
ClientPort(c) == IF c.via = "url" THEN ParseInt(c.url.digits) ELSE c.port

\* the Client each notebook builds
ClientOf(s, cfg, input_names, output_names, p) ==
  CASE s \in {"nb02", "nb03"} -> ClientWithUrl(input_names, output_names, p)
    [] s = "nb05py" -> ClientWithPort(cfg, "NUMPY", "RAW", "NUMPY", p)
    [] OTHER -> ClientWithPort(cfg, ServingFormat(cfg, "input"),
                               ServingFormat(cfg, "output"),
                               ServingFormat(cfg, "output"), p)

----------------------------------------------------------------------------
(* The external server's answer and the calls of the SDK *)

Range(f) == { f[x] : x \in DOMAIN f }

NoBody == [kind |-> "none", keys |-> {}]

NoResult == [status |-> "none", error |-> "none", body |-> NoBody]

\* What predict returns for a served request: a bare array when the return
\* format is NUMPY, else a dictionary keyed by the output column names of
\* the step's outputs
ServerResponseByOutputName(doc, cl) ==
  IF cl.return_output_type = "NUMPY"
  THEN [kind |-> "array", keys |-> {}]
  ELSE [kind |-> "dict", keys |-> Range(DocSteps(doc)[Len(DocSteps(doc))]["outputNames"])]

\* the same, were the value returned in the format of the endpoint
ServerResponseInEndpointFormat(doc, cl) ==
  IF cl.endpoint_output_type = "NUMPY"
  THEN [kind |-> "array", keys |-> {}]
  ELSE IF cl.endpoint_output_type = "RAW"
  THEN [kind |-> "raw", keys |-> {}]
  ELSE LET last == DocSteps(doc)[Len(DocSteps(doc))]
       IN  [kind |-> "dict",
            keys |-> UNION { Range(last["outputColumnNames"][n]) :
                             n \in Range(last["outputNames"]) }]

ServerResponse(doc, cl) ==
  IF cl.return_output_type = "NUMPY"
  THEN [kind |-> "array", keys |-> {}]
  ELSE LET last == DocSteps(doc)[Len(DocSteps(doc))]
       IN  [kind |-> "dict",
            keys |-> UNION { Range(last["outputColumnNames"][n]) :
                             n \in Range(last["outputNames"]) }]

\* the HTTP requests one predict call sends
SentByWithRetry(req, refused) == IF refused THEN <<req, req>> ELSE <<req>>

SentBy(req, refused) == <<req>>

\* the subprocess handle after stop()
StopHandle(p) == IF p = "running" THEN "stopped" ELSE p

\* whether stop() raises on this handle
StopRaisesIfNotRunning(p) == p # "running"

StopRaises(p) == FALSE

\* an exception ends the cell that raised it; a caller of the API gets it back
Raise(e) ==
  /\ err' = IF mode = "script" THEN e ELSE err
  /\ result' = [status |-> "error", error |-> e, body |-> NoBody]

----------------------------------------------------------------------------
(* Initial states *)

EmptyEnv == [n \in {} |-> NoResult]

InitCommon ==
  /\ inUse \in PortsHeld
  /\ pc = 1 /\ port = 0 /\ env = EmptyEnv /\ entered = <<>>
  /\ dict_out = NoDoc /\ config_file = NoDoc /\ client = NoClient
  /\ proc = "none" /\ ext = "down" /\ loadTime = 0 /\ loadOk = TRUE
  /\ clock = 0 /\ polls = 0 /\ http = <<>> /\ result = NoResult
  /\ err = "none" /\ stdout = <<>> /\ starting = FALSE /\ ops = <<>>
  /\ calls = 0

Init == session \in Sessions /\ mode = "script" /\ InitCommon

ApiInit == session \in NotebookSessions /\ mode = "api" /\ InitCommon

----------------------------------------------------------------------------
(* Statements *)

Stmt ==
  LET sc == IF mode = "script" THEN Script(session) ELSE BuildScript(session)
  IN  IF pc <= Len(sc) THEN sc[pc] ELSE "end"

\* a statement runs once the one before it has returned
AtIgnoringStart(op) == err = "none" /\ Stmt = op

At(op) == err = "none" /\ ~starting /\ Stmt = op

Done(op) == pc' = pc + 1 /\ ops' = Append(ops, op)

Enter(call, target, args) ==
  entered' = Append(entered, [call |-> call, target |-> target, args |-> args])

lifeVars ==
  <<proc, ext, loadTime, loadOk, clock, polls, http, result, err, stdout,
    starting, config_file>>

\* port = np.random.randint(1000, 65535), were ports in use drawn again
DrawPortAvoidingUsed ==
  /\ At("port") /\ Done("port")
  /\ port' \in RandPorts \ inUse
  /\ UNCHANGED <<session, mode, inUse, env, entered, dict_out, client, calls, lifeVars>>

\* port = np.random.randint(1000, 65535)
DrawPort ==
  /\ At("port") /\ Done("port")
  /\ port' \in RandPorts
  /\ UNCHANGED <<session, mode, inUse, env, entered, dict_out, client, calls, lifeVars>>

\* input_data_types = {...}; TensorFlowConfig(...) or ModelConfig(...)
BuildModelConfig ==
  /\ At("model_config") /\ Done("model_config")
  /\ LET idt == InputDataTypes(session)
         path == AbsPath(ModelPath(session))
         cls == IF session = "nb02" THEN "TensorFlowConfig" ELSE "ModelConfig"
     IN  /\ env' = Put(Put(env, "input_data_types", idt), "model_config",
                       ModelConfigOf(cls, TensorDataTypesConfig(idt),
                                     ModelConfigType(ModelType(session), path)))
         /\ entered' = entered \o
              << [call |-> "TensorDataTypesConfig", target |-> "tdtc",
                  args |-> (<<"input","data","types">> :> idt)],
                 [call |-> "ModelConfigType", target |-> "mct",
                  args |-> (<<"model","type">> :> ModelType(session)) @@
                           (<<"model","loading","path">> :> path)] >>
  /\ UNCHANGED <<session, mode, inUse, port, dict_out, client, calls, lifeVars>>

\* input_names = list(input_data_types.keys()); ModelStep(...)
BuildModelStep ==
  /\ At("model_step") /\ Done("model_step")
  /\ LET input_names == DictKeys(env["input_data_types"])
         output_names == OutputNames(session)
     IN  /\ env' = Put(Put(Put(env, "input_names", input_names),
                           "output_names", output_names), "step",
                       ModelStep(env["model_config"], ParallelInferenceConfig(1),
                                 input_names, output_names))
         /\ entered' = entered \o
              << [call |-> "ParallelInferenceConfig", target |-> "pic",
                  args |-> (<<"workers">> :> 1)],
                 [call |-> "ModelStep", target |-> "step",
                  args |-> (<<"input","names">> :> input_names) @@
                           (<<"output","names">> :> output_names)] >>
  /\ UNCHANGED <<session, mode, inUse, port, dict_out, client, calls, lifeVars>>

\* ServingConfig(http_port=port, ...)
BuildServingConfig ==
  /\ At("serving") /\ Done("serving")
  /\ env' = Put(env, "serving_config", ServingConfig(ServingKwargs(session, port)))
  /\ Enter("ServingConfig", "serving", ServingKwargs(session, port))
  /\ UNCHANGED <<session, mode, inUse, port, dict_out, client, calls, lifeVars>>

\* Server(inference_config=InferenceConfiguration(serving_config, pipeline_steps))
BuildServerFromConfig ==
  /\ At("server_ic") /\ Done("server_ic")
  /\ env' = Put(env, "server",
                [config |-> InferenceConfiguration(env["serving_config"],
                                                   <<env["step"]>>)])
  /\ UNCHANGED <<session, mode, inUse, port, entered, dict_out, client, calls, lifeVars>>

\* Server(steps=..., serving_config=...)
BuildServerFromSteps ==
  /\ At("server_steps") /\ Done("server_steps")
  /\ env' = Put(env, "server",
                [config |-> ServerFromSteps(<<env["step"]>>, env["serving_config"])])
  /\ UNCHANGED <<session, mode, inUse, port, entered, dict_out, client, calls, lifeVars>>

\* server.config.as_dict()
CallAsDictWritingBack ==
  /\ At("as_dict") /\ Done("as_dict")
  /\ dict_out' = AsDict(env["server"].config)
  /\ env' = Put(env, "server",
                [config |-> [env["server"].config EXCEPT
                               !.kw = (<<"@type">> :> "InferenceConfiguration") @@ @]])
  /\ UNCHANGED <<session, mode, inUse, port, entered, client, calls, lifeVars>>

CallAsDict ==
  /\ At("as_dict") /\ Done("as_dict")
  /\ dict_out' = AsDict(env["server"].config)
  /\ UNCHANGED <<session, mode, inUse, port, env, entered, client, calls, lifeVars>>

\* Client(...)
BuildClient ==
  /\ At("client") /\ Done("client")
  /\ client' = ClientOf(session, env["server"].config,
                        IF "input_names" \in DOMAIN env THEN env["input_names"] ELSE <<>>,
                        IF "output_names" \in DOMAIN env THEN env["output_names"] ELSE <<>>,
                        port)
  /\ UNCHANGED <<session, mode, inUse, port, env, entered, dict_out, calls, lifeVars>>

\* data_input = {...}, or the image loaded for predict
LoadData ==
  /\ At("data") /\ Done("data")
  /\ env' = Put(env, "data_input", DataInputKeys(session))
  /\ UNCHANGED <<session, mode, inUse, port, entered, dict_out, client, calls, lifeVars>>

\* schema = Schema()
SchemaNew ==
  /\ At("schema_new") /\ Done("schema_new")
  /\ env' = Put(env, "schema", NewSchema)
  /\ UNCHANGED <<session, mode, inUse, port, entered, dict_out, client, calls, lifeVars>>

\* schema.add_string_column("first"): the result is discarded, schema is changed
SchemaAddColumn ==
  /\ At("schema_add") /\ Done("schema_add")
  /\ env' = Put(env, "schema", AddStringColumn(env["schema"], "first"))
  /\ UNCHANGED <<session, mode, inUse, port, entered, dict_out, client, calls, lifeVars>>

\* tp = TransformProcess(schema)
TpNew ==
  /\ At("tp_new") /\ Done("tp_new")
  /\ env' = Put(env, "tp", NewTransformProcess(env["schema"]))
  /\ UNCHANGED <<session, mode, inUse, port, entered, dict_out, client, calls, lifeVars>>

\* tp.append_string("first", "two"): the result is discarded, tp is changed
TpAppendString ==
  /\ At("tp_append") /\ Done("tp_append")
  /\ env' = Put(env, "tp", AppendString(env["tp"], "first", "two"))
  /\ UNCHANGED <<session, mode, inUse, port, entered, dict_out, client, calls, lifeVars>>

\* as_python_json = json.loads(tp.to_java().toJson())
TpJson ==
  /\ At("tp_json") /\ Done("tp_json")
  /\ env' = Put(env, "as_python_json", TpToJson(env["tp"]))
  /\ UNCHANGED <<session, mode, inUse, port, entered, dict_out, client, calls, lifeVars>>

\* transform_step = (TransformProcessStep()
\*     .set_input(schema=None, column_names=["first"], types=["String"])
\*     .set_output(schema=None, column_names=["first"], types=["String"])
\*     .transform_process(as_python_json)): one statement
BuildTransformStep ==
  /\ At("transform_step") /\ Done("transform_step")
  /\ env' = Put(env, "step",
                SetTransformProcessOf(
                  SetOutputOf(
                    SetInputOf(NewTransformProcessStep, <<"first">>, <<"String">>),
                    <<"first">>, <<"String">>),
                  env["as_python_json"]))
  /\ entered' = entered \o
       << [call |-> "set_input", target |-> "step",
           args |-> (<<"schema">> :> <<"None">>) @@
                    (<<"column","names">> :> <<"first">>) @@
                    (<<"types">> :> <<"String">>)],
          [call |-> "set_output", target |-> "step",
           args |-> (<<"schema">> :> <<"None">>) @@
                    (<<"column","names">> :> <<"first">>) @@
                    (<<"types">> :> <<"String">>)] >>
  /\ UNCHANGED <<session, mode, inUse, port, dict_out, client, calls, lifeVars>>

\* python_config = PythonConfig(python_code, python_inputs, python_outputs, python_path)
BuildPythonConfig ==
  /\ At("python_config") /\ Done("python_config")
  /\ env' = Put(env, "python_config",
                PythonConfig(<< <<"image", "NDARRAY">> >>, << <<"img_out_y", "NDARRAY">> >>))
  /\ UNCHANGED <<session, mode, inUse, port, entered, dict_out, client, calls, lifeVars>>

\* onnx_step = PythonStep().step(input_name="input1", python_config=python_config)
BuildPythonStep ==
  /\ At("python_step") /\ Done("python_step")
  /\ env' = Put(env, "step", PythonStepOf("input1", env["python_config"]))
  /\ UNCHANGED <<session, mode, inUse, port, entered, dict_out, client, calls, lifeVars>>

----------------------------------------------------------------------------
(* The process manager and the request client *)

\* time passes: the external server ends loading once its load time is over
Advance(dt) ==
  /\ clock' = clock + dt
  /\ ext' = IF ext = "loading" /\ clock + dt >= loadTime
            THEN (IF loadOk THEN "ready" ELSE "failed")
            ELSE ext

\* the external server is launched with the serialized configuration
Spawn(cfg) ==
  /\ config_file' = AsDict(cfg)
  /\ proc' = "running" /\ ext' = "loading"
  /\ loadTime' \in LoadTimes /\ loadOk' \in BOOLEAN
  /\ clock' = 0 /\ polls' = 0

\* start(): spawn; the later SDK then checks the health endpoint in a loop
DoStart(cfg) ==
  /\ Spawn(cfg)
  /\ starting' = StartPolls(session)
  /\ stdout' = IF StartPolls(session) THEN <<"Starting server">> ELSE stdout
  /\ UNCHANGED <<http, result, err>>

\* one request to the prediction endpoint, answered or refused
DoPredictDroppingHandle(cl, names, data) ==
  LET connected ==
        /\ ext = "ready"
        /\ ClientPort(cl) = config_file["servingConfig"]["httpPort"]
      req == [names |-> names, data |-> data, payload |-> ZipInputs(names, data),
              port |-> ClientPort(cl), ready |-> (ext = "ready"),
              served |-> connected]
  IN  /\ http' = http \o SentBy(req, ~connected)
      /\ proc' = IF connected \/ proc = "none" THEN proc ELSE "stopped"
      /\ IF connected
         THEN \E ok \in BOOLEAN :
                IF ok
                THEN /\ result' = [status |-> "ok", error |-> "none",
                                   body |-> ServerResponse(config_file, cl)]
                     /\ err' = err
                ELSE Raise("ServerError")
         ELSE Raise("ConnectionError")
      /\ UNCHANGED <<ext, loadTime, loadOk, clock, polls, stdout, starting,
                     config_file>>

DoPredict(cl, names, data) ==
  LET connected ==
        /\ ext = "ready"
        /\ ClientPort(cl) = config_file["servingConfig"]["httpPort"]
      req == [names |-> names, data |-> data, payload |-> ZipInputs(names, data),
              port |-> ClientPort(cl), ready |-> (ext = "ready"),
              served |-> connected]
  IN  /\ http' = http \o SentBy(req, ~connected)
      /\ IF connected
         THEN \E ok \in BOOLEAN :
                IF ok
                THEN /\ result' = [status |-> "ok", error |-> "none",
                                   body |-> ServerResponse(config_file, cl)]
                     /\ err' = err
                ELSE Raise("ServerError")
         ELSE Raise("ConnectionError")
      /\ UNCHANGED <<proc, ext, loadTime, loadOk, clock, polls, stdout, starting,
                     config_file>>

\* stop(): a running process is terminated; nothing else is touched
DoStop ==
  /\ IF StopRaises(proc)
     THEN Raise("StopError") /\ UNCHANGED <<proc, ext>>
     ELSE /\ proc' = StopHandle(proc)
          /\ ext' = IF proc = "running" THEN "down" ELSE ext
          /\ UNCHANGED <<result, err>>
  /\ UNCHANGED <<loadTime, loadOk, clock, polls, http, stdout, starting, config_file>>

\* server.start()
Start ==
  /\ At("start") /\ ops' = Append(ops, "start")
  /\ DoStart(env["server"].config)
  /\ pc' = IF StartPolls(session) THEN pc ELSE pc + 1
  /\ UNCHANGED <<session, mode, inUse, port, env, entered, dict_out, client, calls>>

\* whether start() ends its readiness loop after its n-th failed health check
StartNeverGivesUp(n) == FALSE

StartGivesUp(n) == n >= MaxPolls

\* one round of the readiness loop of start(): a health check after a pause
Poll ==
  /\ starting /\ err = "none"
  /\ Advance(PollInterval)
  /\ polls' = polls + 1
  /\ ops' = Append(ops, "poll")
  /\ IF ext' = "ready"
     THEN /\ starting' = FALSE
          /\ stdout' = stdout \o <<".", "Server has started successfully.">>
          /\ pc' = IF Stmt \in {"start", "serve"} THEN pc + 1 ELSE pc
          /\ UNCHANGED <<result, err>>
     ELSE IF StartGivesUp(polls + 1)
          THEN /\ starting' = FALSE
               /\ stdout' = Append(stdout, ".")
               /\ Raise("StartFailed")
               /\ pc' = IF Stmt \in {"start", "serve"} THEN pc + 1 ELSE pc
          ELSE /\ stdout' = Append(stdout, ".")
               /\ UNCHANGED <<starting, result, err, pc>>
  /\ UNCHANGED <<session, mode, inUse, port, env, entered, dict_out, client, calls,
                 proc, loadTime, loadOk, http, config_file>>

\* time.sleep(60) / time.sleep(30)
Sleep ==
  /\ At("sleep") /\ Done("sleep")
  /\ Advance(SleepSeconds(session))
  /\ UNCHANGED <<session, mode, inUse, port, env, entered, dict_out, client, calls,
                 proc, loadTime, loadOk, polls, http, result, err, stdout,
                 starting, config_file>>

\* client.predict(data_input)
\* (a name the cells before did not define ends the statement before the call)
Predict ==
  /\ At("predict")
  /\ IF client.kind = "none" \/ "data_input" \notin DOMAIN env
     THEN /\ pc' = pc + 1 /\ ops' = ops
          /\ Raise("NameError")
          /\ UNCHANGED <<proc, ext, loadTime, loadOk, clock, polls, http, stdout,
                         starting, config_file>>
     ELSE /\ Done("predict")
          /\ DoPredict(client, env["data_input"], env["data_input"])
  /\ UNCHANGED <<session, mode, inUse, port, env, entered, dict_out, client, calls>>

\* print(predicted)
PrintResult ==
  /\ At("print") /\ Done("print")
  /\ UNCHANGED <<session, mode, inUse, port, env, entered, dict_out, client, calls, lifeVars>>

\* server.stop()
Stop ==
  /\ At("stop") /\ Done("stop")
  /\ DoStop
  /\ UNCHANGED <<session, mode, inUse, port, env, entered, dict_out, client, calls>>

\* An exception ends the cell it was raised in; the cells after it can still
\* be run: the session goes on at the first statement of the next cell.
NextCell ==
  /\ mode = "script" /\ err # "none" /\ pc > 1
  /\ \E i \in pc..Len(Script(session)) :
       /\ Cells(session)[i] # Cells(session)[pc - 1]
       /\ \A j \in pc..(i - 1) : Cells(session)[j] = Cells(session)[pc - 1]
       /\ pc' = i
  /\ err' = "none"
  /\ UNCHANGED <<session, mode, inUse, port, env, entered, dict_out, config_file, client,
                 proc, ext, loadTime, loadOk, clock, polls, http, result, stdout,
                 starting, ops, calls>>

----------------------------------------------------------------------------
(* The command line *)

\* konduit serve --config file.yaml
Serve ==
  /\ At("serve") /\ ops' = Append(ops, "serve")
  /\ env' = Put(env, "server", [config |-> YamlConfig(session)])
  /\ DoStart(YamlConfig(session))
  /\ pc' = pc
  /\ UNCHANGED <<session, mode, inUse, port, entered, dict_out, client, calls>>

\* konduit predict-numpy --config file.yaml --numpy_data ... [--input_names ...]
PredictNumpy ==
  /\ At("predict_numpy") /\ Done("predict_numpy")
  /\ client' = ClientWithPort(env["server"].config,
                              ServingFormat(env["server"].config, "input"),
                              ServingFormat(env["server"].config, "output"),
                              ServingFormat(env["server"].config, "output"),
                              YamlClientPort(session))
  /\ DoPredict(client', CliInputNames(session), CliNumpyData(session))
  /\ UNCHANGED <<session, mode, inUse, port, env, entered, dict_out, calls>>

\* konduit stop-server --config file.yaml
StopServer ==
  /\ At("stop_server") /\ Done("stop_server")
  /\ DoStop
  /\ UNCHANGED <<session, mode, inUse, port, env, entered, dict_out, client, calls>>

----------------------------------------------------------------------------
(* A caller who, the records built, calls the API in any order *)

ApiReady ==
  /\ mode = "api" /\ Stmt = "end" /\ ~starting /\ calls < MaxCalls
  /\ calls' = calls + 1 /\ pc' = pc

ApiStart ==
  /\ ApiReady /\ proc # "running"
  /\ ops' = Append(ops, "start")
  /\ DoStart(env["server"].config)
  /\ UNCHANGED <<session, mode, inUse, port, env, entered, dict_out, client>>

ApiSleep ==
  /\ ApiReady /\ ~StartPolls(session)
  /\ ops' = Append(ops, "sleep")
  /\ Advance(SleepSeconds(session))
  /\ UNCHANGED <<session, mode, inUse, port, env, entered, dict_out, client,
                 proc, loadTime, loadOk, polls, http, result, err, stdout,
                 starting, config_file>>

ApiPredict ==
  /\ ApiReady
  /\ ops' = Append(ops, "predict")
  /\ DoPredict(client, env["data_input"], env["data_input"])
  /\ UNCHANGED <<session, mode, inUse, port, env, entered, dict_out, client>>

ApiStop ==
  /\ ApiReady
  /\ ops' = Append(ops, "stop")
  /\ DoStop
  /\ UNCHANGED <<session, mode, inUse, port, env, entered, dict_out, client>>

ApiAsDict ==
  /\ ApiReady
  /\ ops' = Append(ops, "as_dict")
  /\ dict_out' = AsDict(env["server"].config)
  /\ UNCHANGED <<session, mode, inUse, port, env, entered, client, lifeVars>>

----------------------------------------------------------------------------
(* Specifications *)

Build ==
  \/ DrawPort \/ BuildModelConfig \/ BuildModelStep \/ BuildServingConfig
  \/ BuildServerFromConfig \/ BuildServerFromSteps \/ CallAsDict \/ BuildClient
  \/ LoadData \/ SchemaNew \/ SchemaAddColumn \/ TpNew \/ TpAppendString
  \/ TpJson \/ BuildTransformStep
  \/ BuildPythonConfig \/ BuildPythonStep

Next ==
  \/ Build
  \/ Start \/ Poll \/ Sleep \/ Predict \/ PrintResult \/ Stop
  \/ Serve \/ PredictNumpy \/ StopServer
  \/ NextCell

ApiNext ==
  \/ Build
  \/ Poll \/ ApiStart \/ ApiSleep \/ ApiPredict \/ ApiStop \/ ApiAsDict

\* the documented sessions, each statement in the order of its cell
Spec == Init /\ [][Next]_vars

\* the same records, then start / sleep / predict / stop / as_dict in any order
ApiSpec == ApiInit /\ [][ApiNext]_vars

\* the documented sessions, a start() that is in its readiness loop going on
\* to its next health check: the loop runs in the session's only thread
LiveSpec == Init /\ [][Next]_vars /\ WF_vars(Poll)

----------------------------------------------------------------------------
(* Properties *)

Count(seq, S) == Cardinality({ i \in DOMAIN seq : seq[i] \in S })

StartOps == {"start", "serve"}

PredictOps == {"predict", "predict_numpy"}

StopOps == {"stop", "stop_server"}

\* an entered keyword argument is serialized under the camelCase form of its
\* keyword, with the value entered
RoundTrips(e, w) ==
  LET d == DocAt(dict_out, e.target)
  IN  CamelCase(w) \in DOMAIN d /\ d[CamelCase(w)] = e.args[w]

\* C1, as stated: every value entered to a constructor or builder call appears
\* unchanged in the as_dict() document under the camelCase form of the name it
\* was entered with; no entered field is dropped or renamed.
C1_RoundTripEveryField ==
  HasDoc(dict_out) =>
    \A i \in DOMAIN entered : \A w \in DOMAIN entered[i].args :
      RoundTrips(entered[i], w)

\* C1, amended: the keyword arguments of ServingConfig, ModelStep,
\* TensorDataTypesConfig, ModelConfigType and ParallelInferenceConfig round-trip
\* under the camelCase form of their keyword; the arguments of set_input /
\* set_output of a TransformProcessStep are renamed: column_names is serialized
\* under inputColumnNames / outputColumnNames and types under inputSchemas /
\* outputSchemas, each keyed by the step name 'default', and schema=None is
\* not serialized.
C1_RoundTrip ==
  HasDoc(dict_out) =>
    \A i \in DOMAIN entered :
      LET e == entered[i]
          d == DocAt(dict_out, e.target)
          dir == IF e.call = "set_input" THEN "input" ELSE "output"
      IN  IF e.call \in {"set_input", "set_output"}
          THEN /\ d[dir \o "ColumnNames"][DefaultName] = e.args[<<"column","names">>]
               /\ d[dir \o "Schemas"][DefaultName] = e.args[<<"types">>]
               /\ "schema" \notin DOMAIN d
               /\ "columnNames" \notin DOMAIN d
               /\ "types" \notin DOMAIN d
          ELSE \A w \in DOMAIN e.args : RoundTrips(e, w)

C1_Witness ==
  /\ HasDoc(dict_out) /\ session = "nb03"
  /\ dict_out["servingConfig"]["httpPort"] = PortHigh - 1
  /\ dict_out["pipelineSteps"][1]["modelConfig"]["modelConfigType"]["modelType"]
       = "MULTI_LAYER_NETWORK"

\* the place of an operation in the order
\* build config -> serialize -> start -> poll readiness -> send -> decode -> stop
\* (0: not one of these: building the Client, loading the input data)
Phase(op) ==
  CASE op \in {"client", "data"} -> 0
    [] op = "as_dict" -> 2
    [] op \in StartOps -> 3
    [] op \in {"poll", "sleep"} -> 4
    [] op \in PredictOps -> 5
    [] op = "print" -> 6
    [] op \in StopOps -> 7
    [] OTHER -> 1

\* C2: every session follows the order build config -> serialize -> start ->
\* poll readiness -> send request -> decode response -> stop; no predict is
\* issued before start or after stop, and stop is the last operation.
C2_SessionOrder ==
  /\ \A i \in DOMAIN ops : \A j \in DOMAIN ops :
       (i < j /\ Phase(ops[i]) # 0 /\ Phase(ops[j]) # 0) =>
         Phase(ops[i]) <= Phase(ops[j])
  /\ \A i \in DOMAIN ops :
       ops[i] \in PredictOps =>
         /\ \E j \in 1..(i - 1) : ops[j] \in StartOps
         /\ \A j \in 1..(i - 1) : ops[j] \notin StopOps
  /\ \A i \in DOMAIN ops : ops[i] \in StopOps => i = Len(ops)

C2_Witness ==
  /\ Len(ops) > 0 /\ ops[Len(ops)] \in StopOps
  /\ Count(ops, PredictOps) = 1 /\ result.status = "ok"

\* C3: in every notebook session the first client.predict is sent only after
\* the external server has become ready, with a fixed time.sleep as well as
\* with a start() that reports 'Server has started successfully.' (stated for
\* servers that do load: the wait, not a load error, is what is at stake).
C3_PredictOnlyWhenReady ==
  (session \in NotebookSessions /\ loadOk) =>
    \A i \in DOMAIN http : http[i].ready

\* C4, as stated: a served request is answered by a response keyed by the
\* output names (outputNames) of the served pipeline step.
C4_KeyedByOutputName ==
  result.status = "ok" =>
    /\ result.body.kind = "dict"
    /\ result.body.keys = Range(ServerOutputNames(env["server"].config))

\* the column names entered by the session's set_output call
EnteredOutputColumns ==
  UNION { Range(entered[i].args[<<"column","names">>]) :
          i \in { j \in DOMAIN entered : entered[j].call = "set_output" } }

\* C4, amended: the response follows the client's return format: a bare
\* array, with no output name in it, when the return format is NUMPY; with
\* JSON output of a TransformProcessStep a dictionary keyed by the step's
\* output column names, which are not its outputNames.
C4_ResponseShape ==
  result.status = "ok" =>
    IF client.return_output_type = "NUMPY"
    THEN result.body.kind = "array" /\ result.body.keys = {}
    ELSE /\ result.body.kind = "dict"
         /\ result.body.keys = EnteredOutputColumns
         /\ result.body.keys # Range(ServerOutputNames(env["server"].config))

C4_Witness ==
  /\ result.status = "ok" /\ session = "nb05tp"
  /\ result.body.keys = {"first"}

\* a stop call just made on a handle that was not running
StopOnStopped == ops' = Append(ops, "stop") /\ proc # "running"

\* C5: stop() on a server whose process is already stopped, or was never
\* started, raises nothing and leaves the server as it was: not running, so
\* stop followed by stop ends in the state of a single stop.
C5_StopIdempotent ==
  [][StopOnStopped =>
       /\ proc' = proc /\ ext' = ext /\ result' = result /\ err' = err
       /\ http' = http /\ config_file' = config_file]_vars

C5_Witness ==
  /\ Len(ops) >= 2 /\ ops[Len(ops)] = "stop" /\ ops[Len(ops) - 1] = "stop"
  /\ proc = "stopped" /\ result.status # "error"

\* C6: one predict call sends exactly one HTTP request, served or not, and a
\* failure (connection refused, server error, failed start) comes back to the
\* caller as it occurred, with no further request made for it.
C6_NoRetry ==
  /\ Len(http) = Count(ops, PredictOps)
  /\ (Len(ops) > 0 /\ ops[Len(ops)] \in PredictOps) =>
       /\ ~http[Len(http)].served =>
            result.status = "error" /\ result.error = "ConnectionError"
       /\ result.status = "error" =>
            result.error \in {"ConnectionError", "ServerError"}
  /\ (Len(ops) > 0 /\ ops[Len(ops)] = "poll" /\ ~starting /\ ext # "ready") =>
       result.status = "error" /\ result.error = "StartFailed"

C6_Witness ==
  /\ Count(ops, PredictOps) >= 2 /\ ops[Len(ops)] \in PredictOps
  /\ ~http[Len(http)].served /\ result.error = "ConnectionError"

\* the model steps of a document carry a modelConfig record
ModelStepsCarryConfig(doc) ==
  \A i \in DOMAIN DocSteps(doc) :
    DocSteps(doc)[i]["@type"] = "ModelStep" => "modelConfig" \in DOMAIN DocSteps(doc)[i]

\* C7, as stated: every serialized configuration has a servingConfig record
\* with httpPort and its step list under pipelineSteps, each model step with
\* a modelConfig, whichever way the Server was built.
C7_OneSchema ==
  HasDoc(dict_out) =>
    /\ "servingConfig" \in DOMAIN dict_out
    /\ "httpPort" \in DOMAIN dict_out["servingConfig"]
    /\ "pipelineSteps" \in DOMAIN dict_out
    /\ ModelStepsCarryConfig(dict_out)

\* C7, amended: every serialized configuration has a servingConfig record with
\* httpPort and exactly one step list: under pipelineSteps when built with
\* Server(inference_config=...), under steps when built with
\* Server(steps=..., serving_config=...); each model step has a modelConfig.
C7_SchemaByConstructor ==
  HasDoc(dict_out) =>
    /\ "servingConfig" \in DOMAIN dict_out
    /\ "httpPort" \in DOMAIN dict_out["servingConfig"]
    /\ Count(ops, {"server_ic"}) = 1 =>
         "pipelineSteps" \in DOMAIN dict_out /\ "steps" \notin DOMAIN dict_out
    /\ Count(ops, {"server_steps"}) = 1 =>
         "steps" \in DOMAIN dict_out /\ "pipelineSteps" \notin DOMAIN dict_out
    /\ ModelStepsCarryConfig(dict_out)

C7_Witness ==
  /\ HasDoc(dict_out) /\ "steps" \in DOMAIN dict_out
  /\ dict_out["steps"][1]["@type"] = "TransformProcessStep"

\* the http_port of the configuration a Server holds
ServerPort(cfg) == cfg.kw[<<"serving","config">>].kw[<<"http","port">>]

\* C8: the client targets the HTTP port of the server it calls: the port (or
\* the url's port) given to Client is the server's servingConfig.httpPort,
\* every request goes to the port the server was started with, and in every
\* YAML file shown in full client.port equals serving.http_port.
C8_SamePort ==
  /\ (client.kind = "client" /\ "server" \in DOMAIN env) =>
       ClientPort(client) = ServerPort(env["server"].config)
  /\ \A i \in DOMAIN http :
       http[i].port = config_file["servingConfig"]["httpPort"]
  /\ (session \in CliSessions /\ YamlShowsSections(session)) =>
       YamlClientPort(session) = YamlServingPort(session)

C8_Witness ==
  /\ session = "nb02" /\ client.via = "url" /\ Len(http) = 1
  /\ http[1].port = PortHigh - 1

\* C9: the input names of a request are the input names of the first step of
\* the configuration served: the keys of the predict dictionary, or
\* --input_names, equal the step's input_names.
C9_RequestNamesMatch ==
  \A i \in DOMAIN http :
    Range(http[i].names) = Range(ServerInputNames(env["server"].config))

RECURSIVE LiveAfter(_)
LiveAfter(seq) ==
  IF Len(seq) = 0 THEN 0
  ELSE LET n == LiveAfter(SubSeq(seq, 1, Len(seq) - 1))
           op == seq[Len(seq)]
       IN  IF op \in StartOps THEN n + 1
           ELSE IF op \in StopOps /\ n > 0 THEN n - 1
           ELSE n

IsOp(S) == \E op \in S : ops' = Append(ops, op)

C12_Synchronous ==
  [][/\ starting => IsOp({"poll"})
     /\ IsOp(PredictOps) =>
          /\ Len(http') = Len(http) + 1
          /\ result'.status \in {"ok", "error"}
          /\ result'.status = "ok" => http'[Len(http')].served
          /\ (result'.status = "ok") <=> (result'.body.kind # "none")]_vars

\* start() went through several health checks before it returned, and the
\* predict that followed returned the decoded answer
C12_Witness ==
  /\ mode = "script" /\ polls >= 2 /\ ~starting
  /\ result.status = "ok" /\ Len(http) = 1

\* C13: every data format configured on a ServingConfig or on a Client is an
\* accepted encoding: input formats are among JSON, ARROW, IMAGE, ND4J, NUMPY
\* and output formats (of the endpoint and of the value returned) are among
\* NUMPY, JSON, ND4J, ARROW.
C13_AcceptedFormats ==
  /\ "server" \in DOMAIN env =>
       /\ ServingFormat(env["server"].config, "input") \in AcceptedInputFormats
       /\ ServingFormat(env["server"].config, "output") \in AcceptedOutputFormats
  /\ client.kind = "client" =>
       /\ client.input_type \in AcceptedInputFormats
       /\ client.endpoint_output_type \in AcceptedOutputFormats
       /\ client.return_output_type \in AcceptedOutputFormats

\* the kind of Python value a format is returned as
FormatKind(fmt) == IF fmt = "NUMPY" THEN "array" ELSE "dict"

\* C14: the value predict returns is in the format named by the client's
\* return_output_type, whatever the endpoint_output_type is: also when the
\* two differ (endpoint RAW, return NUMPY) the caller gets the return format.
C14_ReturnedInReturnFormat ==
  result.status = "ok" => result.body.kind = FormatKind(client.return_output_type)

\* a predict was answered for a client whose endpoint and return formats differ
C14_Witness ==
  /\ result.status = "ok"
  /\ client.endpoint_output_type # client.return_output_type
  /\ result.body.kind = "array"

\* the fields of a serialized step that are keyed by a name of the step
NamedMaps ==
  {"inputSchemas", "outputSchemas", "inputColumnNames", "outputColumnNames",
   "transformProcesses", "pythonConfigs"}

DefaultNamed(doc) ==
  \A i \in DOMAIN DocSteps(doc) :
    LET st == DocSteps(doc)[i]
    IN  /\ st["inputNames"] = <<"default">>
        /\ st["outputNames"] = <<"default">>
        /\ \A k \in NamedMaps \cap DOMAIN st : DOMAIN st[k] = {"default"}

\* C15: a step built without input and output names is named `default` on
\* both sides: in the document displayed by as_dict() and in the one handed
\* to the server, inputNames = outputNames = ['default'] and its schemas,
\* column names, transform processes and python configs are keyed by 'default'.
C15_DefaultNames ==
  NoNamesGiven(session) =>
    /\ HasDoc(dict_out) => DefaultNamed(dict_out)
    /\ HasDoc(config_file) => DefaultNamed(config_file)

\* the transform step, built without names, was serialized with its
\* transform process and its columns under a name
C15_Witness ==
  /\ session = "nb05tp" /\ HasDoc(dict_out)
  /\ DOMAIN DocSteps(dict_out)[1]["transformProcesses"] # {}
  /\ DOMAIN DocSteps(dict_out)[1]["outputColumnNames"] # {}

\* the steps built so far
StepsBuilt ==
  IF "server" \in DOMAIN env THEN StepsOf(env["server"].config)
  ELSE IF "step" \in DOMAIN env THEN <<env["step"]>>
  ELSE <<>>

\* python_inputs / python_outputs dictionaries to change a step's to
AltPythonIO ==
  { <<>>, << <<"first", "NDARRAY">> >>, << <<"image", "NDARRAY">> >>,
    << <<"second", "NDARRAY">>, <<"img_out_y", "NDARRAY">> >> }

StepSamples == { env["step"], YamlStep("cli_keras"), YamlStep("cli_simple") }

DeclaredTypes(st) ==
  LET mc == st.kw[<<"model","config">>].kw
  IN  IF <<"tensor","data","types","config">> \in DOMAIN mc
      THEN mc[<<"tensor","data","types","config">>].kw[<<"input","data","types">>]
      ELSE <<>>

\* C19: in every model step that declares input_data_types, the input names
\* are exactly the keys of input_data_types: each input has one declared
\* data type and no data type is declared for a name that is not an input.
C19_InputNamesAreTypedKeys ==
  \A i \in DOMAIN StepsBuilt :
    LET st == StepsBuilt[i]
        idt == DeclaredTypes(st)
    IN  (st.type = "ModelStep" /\ Len(idt) > 0) =>
          /\ Range(st.kw[<<"input","names">>]) = { idt[k][1] : k \in DOMAIN idt }
          /\ \A j, k \in DOMAIN idt : idt[j][1] = idt[k][1] => j = k
          /\ Len(st.kw[<<"input","names">>]) = Len(idt)

\* a model step with three typed inputs was built from list(keys)
C19_Witness ==
  /\ session = "nb02" /\ Len(StepsBuilt) = 1
  /\ StepsBuilt[1].type = "ModelStep"
  /\ Len(DeclaredTypes(StepsBuilt[1])) = 3

\* the number of items of a comma separated option
Items(option) == (Len(option) + 1) \div 2

\* C20: predict-numpy sends its array under the input name `default` when
\* --input_names is omitted; when comma separated --numpy_data and
\* --input_names are given they have as many items as each other and the
\* i-th array file is sent under the i-th input name.
C20_PredictNumpyNames ==
  \A r \in DOMAIN http :
    session \in CliSessions =>
      LET opt == CliInputNamesOption(session)
          files == CliNumpyDataOption(session)
      IN  IF opt = <<>>
          THEN /\ http[r].names = <<"default">>
               /\ http[r].payload = ("default" :> files[1])
          ELSE /\ Items(opt) = Items(files)
               /\ Len(http[r].names) = Items(opt)
               /\ DOMAIN http[r].payload = { opt[2 * i - 1] : i \in 1..Items(opt) }
               /\ \A i \in 1..Items(opt) :
                    /\ http[r].names[i] = opt[2 * i - 1]
                    /\ http[r].payload[opt[2 * i - 1]] = files[2 * i - 1]

\* predict-numpy sent the three BERT arrays under three names
C20_Witness ==
  /\ session = "cli_bert" /\ Len(http) = 1
  /\ Len(http[1].names) = 3
  /\ http[1].payload["IteratorGetNext:4"] = "../data/bert/input-4.npy"

\* the last predict of the session raised
PredictRaised ==
  /\ result.status = "error"
  /\ Count(ops, PredictOps) > 0
  /\ result.error \in {"ConnectionError", "ServerError"}

\* C21, as stated: in every notebook session stop() is reached only when
\* predict returned normally.
C21_StopOnlyAfterPredictReturned ==
  session \in NotebookSessions =>
    (Count(ops, {"stop"}) > 0 => result.status = "ok")

\* C21, amended: in the notebooks whose server.stop() is in the cell of
\* client.predict (02, 03 and the transform notebook of 05) stop() is reached
\* only when predict returned normally; when predict raises, stop() is not
\* executed and the external process is left running.
C21_StopSkippedInCellOfPredict ==
  session \in {"nb02", "nb03", "nb05tp"} =>
    /\ Count(ops, {"stop"}) > 0 => result.status = "ok"
    /\ PredictRaised =>
         /\ Count(ops, {"stop"}) = 0
         /\ proc = "running" /\ ext # "down"

\* the predict of notebook 03 was refused and its cell ended before stop()
C21_Witness ==
  /\ session = "nb03" /\ PredictRaised /\ err = "ConnectionError"
  /\ Stmt = "print" /\ proc = "running" /\ ext = "loading"

\* C22: nothing between the draw of the port and start() looks at the ports in
\* use: whatever other processes hold, the draw can give any port of its range,
\* start() (or konduit serve, with the port of the YAML file) goes ahead, and
\* is_port_in_use is never called.
C22_NoAvailabilityCheck ==
  /\ At("port") => \A p \in RandPorts : ENABLED (DrawPort /\ port' = p)
  /\ At("start") => ENABLED Start
  /\ At("serve") => ENABLED Serve
  /\ \A i \in DOMAIN ops : ops[i] # "is_port_in_use"

\* a notebook's server was started on a port that another process holds
C22_Witness ==
  /\ session \in NotebookSessions /\ port \in inUse
  /\ Count(ops, {"start"}) = 1 /\ proc = "running"
  /\ config_file["servingConfig"]["httpPort"] \in inUse

\* the kinds of the nested records of a model step, by their key
NestedKinds ==
  ("tensorDataTypesConfig" :> "TensorDataTypesConfig") @@
  ("modelConfigType" :> "ModelConfigType")

\* the class of the model configuration a session constructs
ModelConfigClass(s) ==
  IF ModelType(s) = "TENSORFLOW" THEN "TensorFlowConfig" ELSE "ModelConfig"

TypedByKind(doc) ==
  /\ doc["@type"] = "InferenceConfiguration"
  /\ doc["servingConfig"]["@type"] = "ServingConfig"
  /\ \A i \in DOMAIN DocSteps(doc) :
       LET st == DocSteps(doc)[i]
       IN  /\ st["@type"] \in {"ModelStep", "PythonStep", "TransformProcessStep"}
           /\ st["@type"] = StepsOf(env["server"].config)[i].type
           /\ st["@type"] = "ModelStep" =>
                /\ st["modelConfig"]["@type"] = ModelConfigClass(session)
                /\ st["parallelInferenceConfig"]["@type"] = "ParallelInferenceConfig"
                /\ \A k \in DOMAIN NestedKinds \cap DOMAIN st["modelConfig"] :
                     st["modelConfig"][k]["@type"] = NestedKinds[k]
                /\ "modelConfigType" \in DOMAIN st["modelConfig"]

\* C23: every configuration record of a serialized configuration carries an
\* '@type' equal to its kind: 'InferenceConfiguration' at the top,
\* 'ServingConfig', the kind of each step, and in a model step the class of
\* its model configuration ('TensorFlowConfig' or 'ModelConfig'),
\* 'TensorDataTypesConfig', 'ModelConfigType' and 'ParallelInferenceConfig'.
C23_TypeDiscriminators ==
  /\ HasDoc(dict_out) => TypedByKind(dict_out)
  /\ HasDoc(config_file) => TypedByKind(config_file)

\* the configuration of the BERT notebook, with its TensorFlowConfig, was
\* serialized
C23_Witness ==
  /\ session = "nb02" /\ HasDoc(dict_out)
  /\ DocSteps(dict_out)[1]["modelConfig"]["@type"] = "TensorFlowConfig"
  /\ DocSteps(dict_out)[1]["modelConfig"]["tensorDataTypesConfig"]["@type"]
       = "TensorDataTypesConfig"

====
